---- MODULE Spec2Model ----
(***************************************************************************)
(* Seat assignment solver of randomseat_plus.py: adjacency index,          *)
(* feasibility checker, backtracking search, multi-layout generator and    *)
(* the two-tier strictness fallback of main.                               *)
(*                                                                         *)
(* Python values are represented as follows.                               *)
(*   Seat                a record [id, row, col]                           *)
(*   None                the empty tuple << >>                             *)
(*   a present value v   the one-element tuple <<v>> (set | None fields,   *)
(*                       constraints.get(sid), the solver's result)        *)
(*   dict[int, int]      the sequence of its <<key, value>> items in       *)
(*                       insertion order (Python dicts keep that order)    *)
(*   defaultdict(set)    a function whose DOMAIN is the set of keys the    *)
(*                       dict holds; reading a missing key inserts it      *)
(***************************************************************************)
EXTENDS Integers, Sequences, FiniteSets, TLC

VARIABLES
    seats,            \* list[Seat] built by build_default_seats in this run
    seat_by_id,       \* st.session_state["seat_by_id"], set on first initialisation
    student_ids,      \* main: roster, in table order
    constraints,      \* dict[int, StudentConstraint]
    num_layouts,      \* requested number of layouts
    adjacent_lr,      \* defaultdict(set): left-right neighbours
    adjacent_9,       \* defaultdict(set): 8-neighbourhood
    gen_strict,       \* generate_multiple_layouts: use_strict_non_adjacent
    layouts,          \* generate_multiple_layouts: layouts
    seen,             \* generate_multiple_layouts: seen
    attempts,         \* generate_multiple_layouts: attempts
    students,         \* generate_multiple_layouts: students (shuffled in place)
    use_strict,       \* solve_one_assignment: use_strict_non_adjacent
    students_sorted,  \* solve_one_assignment: students_sorted
    assignments,      \* solve_one_assignment: assignments
    stack,            \* one frame per active backtrack call: candidates not yet tried
    result,           \* value returned by solve_one_assignment
    returned,         \* main: list returned by the last generate_multiple_layouts call
    used_relaxed,     \* main: used_relaxed
    st_layouts,       \* st.session_state["layouts"]
    rules_df,         \* main: relation table as returned by the data editor
    constraints_df,   \* st.session_state["constraints_df"]: positional table
    adjacency_rules,  \* st.session_state["adjacency_rules"]: cleaned relation records
    students_info,    \* main: students_info, None while the name is not bound in this run
    pc                \* position of the single thread of control

vars == <<seats, seat_by_id, student_ids, constraints, num_layouts, adjacent_lr,
          adjacent_9, gen_strict, layouts, seen, attempts, students, use_strict,
          students_sorted, assignments, stack, result, returned, used_relaxed,
          st_layouts, rules_df, constraints_df, adjacency_rules, students_info, pc>>

tableVars == <<rules_df, constraints_df, adjacency_rules>>
inputVars == <<seats, seat_by_id, student_ids, constraints, num_layouts, tableVars,
               students_info>>
genVars == <<gen_strict, layouts, seen, attempts, students>>
mainVars == <<returned, used_relaxed, st_layouts>>

-----------------------------------------------------------------------------
(* Python values *)

None == << >>
Some(v) == <<v>>
Val(o) == o[1]

Range(s) == {s[i] : i \in DOMAIN s}
Max(S) == CHOOSE m \in S : \A v \in S : v <= m
Min(S) == CHOOSE m \in S : \A v \in S : m <= v
Abs(n) == IF n < 0 THEN -n ELSE n

(* dict[int, int] as its item sequence *)
Keys(d) == {d[i][1] : i \in DOMAIN d}
Values(d) == {d[i][2] : i \in DOMAIN d}
GetItem(d, k) == (CHOOSE i \in DOMAIN d : d[i][1] = k)
ItemOf(d, k) == d[GetItem(d, k)][2]
SetItem(d, k, v) ==
    IF k \in Keys(d)
    THEN [i \in DOMAIN d |-> IF d[i][1] = k THEN <<k, v>> ELSE d[i]]
    ELSE Append(d, <<k, v>>)
DelItem(d, k) == SelectSeq(d, LAMBDA it : it[1] # k)

(* dict.get(key) on a dict modelled as a function *)
Get(d, k) == IF k \in DOMAIN d THEN Some(d[k]) ELSE None

(* defaultdict(set): the value read, and the dict after reading keys K *)
Lookup(m, k) == IF k \in DOMAIN m THEN m[k] ELSE {}
Touch(m, K) == [k \in (DOMAIN m) \cup K |-> Lookup(m, k)]

(* random.shuffle(s): every arrangement of the list is a possible outcome *)
Shuffles(s) == {[i \in 1..Len(s) |-> s[f[i]]] : f \in Permutations(1..Len(s))}

(* a slip of SortedItems: tuple(d.items()), the items in insertion order *)
UnsortedItems(d) == d

(* tuple(sorted(d.items())): the items in ascending order; the keys of a dict
   are distinct, so the order of the keys decides *)
RECURSIVE SortedItems(_)
SortedItems(d) ==
    IF d = << >> THEN << >>
    ELSE LET k == Min(Keys(d))
         IN <<d[GetItem(d, k)]>> \o SortedItems(DelItem(d, k))

-----------------------------------------------------------------------------
(* Seats and the adjacency index *)

Seat(i, r, c) == [id |-> i, row |-> r, col |-> c]

StudentConstraint(rows, cols, must, mustnot) ==
    [allowed_rows |-> rows, allowed_cols |-> cols,
     must_be_adjacent_to |-> must, must_not_adjacent_to |-> mustnot]

Ids(ss) == {ss[i].id : i \in DOMAIN ss}

(* a slip of LrPairs: the row distance is not tested *)
LrPairsAnyRow(ss) ==
    {<<ss[p[1]].id, ss[p[2]].id>> : p \in
        {q \in (DOMAIN ss) \X (DOMAIN ss) :
            /\ ss[q[1]].id # ss[q[2]].id
            /\ Abs(ss[q[1]].col - ss[q[2]].col) = 1}}

(* the loops of build_adjacency_maps over every ordered pair of seats *)
LrPairs(ss) ==
    {<<ss[p[1]].id, ss[p[2]].id>> : p \in
        {q \in (DOMAIN ss) \X (DOMAIN ss) :
            /\ ss[q[1]].id # ss[q[2]].id
            /\ Abs(ss[q[1]].row - ss[q[2]].row) = 0
            /\ Abs(ss[q[1]].col - ss[q[2]].col) = 1}}

(* a slip of BoxPairs: distances below 1 instead of at most 1 *)
BoxPairsBelowOne(ss) ==
    {<<ss[p[1]].id, ss[p[2]].id>> : p \in
        {q \in (DOMAIN ss) \X (DOMAIN ss) :
            /\ ss[q[1]].id # ss[q[2]].id
            /\ Abs(ss[q[1]].row - ss[q[2]].row) < 1
            /\ Abs(ss[q[1]].col - ss[q[2]].col) < 1}}

BoxPairs(ss) ==
    {<<ss[p[1]].id, ss[p[2]].id>> : p \in
        {q \in (DOMAIN ss) \X (DOMAIN ss) :
            /\ ss[q[1]].id # ss[q[2]].id
            /\ Abs(ss[q[1]].row - ss[q[2]].row) <= 1
            /\ Abs(ss[q[1]].col - ss[q[2]].col) <= 1}}

(* A defaultdict only holds the keys that were written: seats with a neighbour *)
PairsToMap(P) == [k \in {p[1] : p \in P} |-> {p[2] : p \in {q \in P : q[1] = k}}]

build_adjacency_maps(ss) ==
    [lr |-> PairsToMap(LrPairs(ss)), box |-> PairsToMap(BoxPairs(ss))]

SeatById(ss) == [k \in Ids(ss) |->
                    ss[Max({i \in DOMAIN ss : ss[i].id = k})]]

-----------------------------------------------------------------------------
(* Feasibility checker *)

(* a slip of is_seat_allowed_for_student: the allowed sets tested for
   truthiness, so that an empty set restricts nothing *)
is_seat_allowed_truthy(seat, sc) ==
    IF sc = None THEN TRUE
    ELSE IF Val(sc).allowed_rows # None /\ Val(Val(sc).allowed_rows) # {}
            /\ seat.row \notin Val(Val(sc).allowed_rows) THEN FALSE
    ELSE IF Val(sc).allowed_cols # None /\ Val(Val(sc).allowed_cols) # {}
            /\ seat.col \notin Val(Val(sc).allowed_cols) THEN FALSE
    ELSE TRUE

is_seat_allowed_for_student(seat, sc) ==
    IF sc = None THEN TRUE
    ELSE IF Val(sc).allowed_rows # None /\ seat.row \notin Val(Val(sc).allowed_rows) THEN FALSE
    ELSE IF Val(sc).allowed_cols # None /\ seat.col \notin Val(Val(sc).allowed_cols) THEN FALSE
    ELSE TRUE

(* a slip of NonAdjacentViolated: the mode flag ignored, left-right only *)
NonAdjacentLrOnly(alr, a9, strict, key, member) == member \in Lookup(alr, key)

(* the test of one must-not-adjacent pair: member in adjacent_9[key] in strict
   mode, member in adjacent_lr[key] in relaxed mode *)
NonAdjacentViolated(alr, a9, strict, key, member) ==
    IF strict THEN member \in Lookup(a9, key) ELSE member \in Lookup(alr, key)

Verdict(f, o, l, b) == [fault |-> f, ok |-> o, lr |-> l, box |-> b]

(* a slip of IncomingCheck: the reverse check left out *)
IncomingCheckOmitted(i, asg, student_id, seat_id, cons, alr, a9, strict, T) ==
    Verdict(FALSE, TRUE, T.lr, T.box)

(* Section 3 of check_partial_constraints: the loop over assignments.items(),
   from item i on; T holds the keys of the two adjacency dicts read so far *)
RECURSIVE IncomingCheck(_, _, _, _, _, _, _, _, _)
IncomingCheck(i, asg, student_id, seat_id, cons, alr, a9, strict, T) ==
    IF i > Len(asg) THEN Verdict(FALSE, TRUE, T.lr, T.box)
    ELSE
      LET other == asg[i][1]
          other_seat == asg[i][2]
          osc == Get(cons, other)
      IN IF osc = None
         THEN IncomingCheck(i + 1, asg, student_id, seat_id, cons, alr, a9, strict, T)
         ELSE
           LET wantsMe == student_id \in Val(osc).must_be_adjacent_to
               avoidsMe == student_id \in Val(osc).must_not_adjacent_to
               T1 == IF wantsMe THEN [T EXCEPT !.lr = @ \cup {seat_id}] ELSE T
               T2 == IF ~avoidsMe THEN T1
                     ELSE IF strict THEN [T1 EXCEPT !.box = @ \cup {other_seat}]
                     ELSE [T1 EXCEPT !.lr = @ \cup {other_seat}]
           IN IF wantsMe /\ other_seat \notin Lookup(alr, seat_id)
              THEN Verdict(FALSE, FALSE, T1.lr, T1.box)
              ELSE IF avoidsMe /\ NonAdjacentViolated(alr, a9, strict, other_seat, seat_id)
              THEN Verdict(FALSE, FALSE, T2.lr, T2.box)
              ELSE IncomingCheck(i + 1, asg, student_id, seat_id, cons, alr, a9, strict, T2)

(* The verdict of check_partial_constraints together with the keys of the two
   adjacency dicts it reads; fault: the seat lookup in the session raises KeyError *)
check_partial_constraints(asg, student_id, seat_id, cons, alr, a9, strict, sbi) ==
    LET sc == Get(cons, student_id)
    IN IF seat_id \notin DOMAIN sbi THEN Verdict(TRUE, FALSE, {}, {})
       ELSE IF ~is_seat_allowed_for_student(sbi[seat_id], sc) THEN Verdict(FALSE, FALSE, {}, {})
       ELSE
         LET must == IF sc = None THEN {}
                     ELSE {o \in Val(sc).must_be_adjacent_to : o \in Keys(asg)}
             mustnot == IF sc = None THEN {}
                        ELSE {o \in Val(sc).must_not_adjacent_to : o \in Keys(asg)}
             lr1 == IF must # {} THEN {seat_id} ELSE {}
             mustFails == \E o \in must : ItemOf(asg, o) \notin Lookup(alr, seat_id)
             lr2 == IF mustnot # {} /\ ~strict THEN lr1 \cup {seat_id} ELSE lr1
             box2 == IF mustnot # {} /\ strict THEN {seat_id} ELSE {}
             mustnotFails ==
                 \E o \in mustnot :
                     NonAdjacentViolated(alr, a9, strict, seat_id, ItemOf(asg, o))
         IN IF mustFails THEN Verdict(FALSE, FALSE, lr1, {})
            ELSE IF mustnotFails THEN Verdict(FALSE, FALSE, lr2, box2)
            ELSE IncomingCheck(1, asg, student_id, seat_id, cons, alr, a9, strict,
                               [lr |-> lr2, box |-> box2])

-----------------------------------------------------------------------------
(* Backtracking solver *)

constraint_score(cons, sid) ==
    LET sc == Get(cons, sid)
    IN IF sc = None THEN 0
       ELSE (IF Val(sc).allowed_rows # None /\ Val(Val(sc).allowed_rows) # {} THEN 2 ELSE 0)
          + (IF Val(sc).allowed_cols # None /\ Val(Val(sc).allowed_cols) # {} THEN 2 ELSE 0)
          + 3 * Cardinality(Val(sc).must_be_adjacent_to)
          + 3 * Cardinality(Val(sc).must_not_adjacent_to)

(* sorted(s, key=constraint_score, reverse=True): descending and stable *)
RECURSIVE SortedDesc(_, _)
SortedDesc(s, cons) ==
    IF s = << >> THEN << >>
    ELSE LET top == Max({constraint_score(cons, s[i]) : i \in DOMAIN s})
         IN SelectSeq(s, LAMBDA x : constraint_score(cons, x) = top)
            \o SortedDesc(SelectSeq(s, LAMBDA x : constraint_score(cons, x) # top), cons)

(* a slip of CandidateSeats: seats already taken are not skipped *)
CandidateSeatsUsedToo(ss, asg, sc) ==
    LET free == SelectSeq(ss, LAMBDA seat : is_seat_allowed_for_student(seat, sc))
    IN [i \in DOMAIN free |-> free[i].id]

(* candidate_seats of backtrack before the shuffle *)
CandidateSeats(ss, asg, sc) ==
    LET free == SelectSeq(ss, LAMBDA seat :
                    seat.id \notin Values(asg) /\ is_seat_allowed_for_student(seat, sc))
    IN [i \in DOMAIN free |-> free[i].id]

-----------------------------------------------------------------------------
(* Inputs *)

MaxStudents == 3
MaxEntries == 2

Row3 == <<Seat(1, 1, 1), Seat(2, 1, 2), Seat(3, 1, 3)>>
Pair == <<Seat(1, 1, 1), Seat(2, 1, 2)>>
Far == <<Seat(1, 1, 1), Seat(2, 3, 3)>>
Ell == <<Seat(1, 1, 1), Seat(2, 2, 1), Seat(3, 2, 2)>>
Layouts == {Row3, Pair, Far, Ell}

RowChoices == {{}, {1}, {2}}
ColChoices == {{}, {1}, {3}}

Roster(n) == [i \in 1..n |-> i]

Entry(k, a, b, S) == [kind |-> k, a |-> a, b |-> b, set |-> S]

EntryPool(S) ==
    {Entry("rows", s, 0, R) : s \in S, R \in RowChoices}
    \cup {Entry("cols", s, 0, C) : s \in S, C \in ColChoices}
    \cup {Entry("must", p[1], p[2], {}) : p \in {q \in S \X S : q[1] # q[2]}}
    \cup {Entry("mustnot", p[1], p[2], {}) : p \in {q \in S \X S : q[1] # q[2]}}
    \cup {Entry("norecord", s, 0, {}) : s \in S}

(* the subsets of P with at most k elements *)
RECURSIVE SubsetsUpTo(_, _)
SubsetsUpTo(P, k) ==
    IF k = 0 THEN {{}}
    ELSE LET prev == SubsetsUpTo(P, k - 1)
         IN prev \cup {E \cup {e} : E \in prev, e \in P}

EntrySets(S) ==
    {E \in SubsetsUpTo(EntryPool(S), MaxEntries) :
        /\ \A e \in E, f \in E :
              (e.a = f.a /\ e # f) =>
                  /\ e.kind # f.kind
                  /\ e.kind # "norecord"}

OptSet(E, k, s) ==
    IF \E e \in E : e.kind = k /\ e.a = s
    THEN Some((CHOOSE e \in E : e.kind = k /\ e.a = s).set)
    ELSE None

ConstraintsOf(S, E) ==
    [s \in {t \in S : Entry("norecord", t, 0, {}) \notin E} |->
        StudentConstraint(OptSet(E, "rows", s), OptSet(E, "cols", s),
                          {e.b : e \in {f \in E : f.kind = "must" /\ f.a = s}},
                          {e.b : e \in {f \in E : f.kind = "mustnot" /\ f.a = s}})]

ConstraintSets(S) == {ConstraintsOf(S, E) : E \in EntrySets(S)}

-----------------------------------------------------------------------------
(* solve_one_assignment and its nested backtrack.  backtrack(idx) is active
   with idx = Len(stack) when pc = "backtrack"; frame j of the stack belongs
   to backtrack(j - 1), which places students_sorted[j]. *)

SolveCall ==
    /\ pc = "solve_call"
    /\ use_strict' = gen_strict
    /\ students_sorted' = SortedDesc(students, constraints)
    /\ assignments' = << >>
    /\ stack' = << >>
    /\ pc' = "backtrack"
    /\ UNCHANGED <<inputVars, genVars, mainVars, adjacent_lr, adjacent_9, result>>

(* idx == len(students_sorted): True is returned through every active call *)
BacktrackDone ==
    /\ pc = "backtrack"
    /\ Len(stack) = Len(students_sorted)
    /\ result' = Some(assignments)
    /\ stack' = << >>
    /\ pc' = "solve_ret"
    /\ UNCHANGED <<inputVars, genVars, mainVars, adjacent_lr, adjacent_9, use_strict,
                   students_sorted, assignments>>

BacktrackEnter ==
    /\ pc = "backtrack"
    /\ Len(stack) < Len(students_sorted)
    /\ LET sid == students_sorted[Len(stack) + 1]
           sc == Get(constraints, sid)
       IN \E shuffled \in Shuffles(CandidateSeats(seats, assignments, sc)) :
              stack' = Append(stack, shuffled)
    /\ pc' = "loop"
    /\ UNCHANGED <<inputVars, genVars, mainVars, adjacent_lr, adjacent_9, use_strict,
                   students_sorted, assignments, result>>

CurrentSid == students_sorted[Len(stack)]
CurrentCheck ==
    check_partial_constraints(assignments, CurrentSid, Head(stack[Len(stack)]),
                              constraints, adjacent_lr, adjacent_9, use_strict, seat_by_id)

(* the seat lookup of the checker raises: the exception leaves every caller *)
BacktrackFault ==
    /\ pc = "loop"
    /\ stack[Len(stack)] # << >>
    /\ CurrentCheck.fault
    /\ pc' = "fault"
    /\ UNCHANGED <<inputVars, genVars, mainVars, adjacent_lr, adjacent_9, use_strict,
                   students_sorted, assignments, stack, result>>

BacktrackReject ==
    /\ pc = "loop"
    /\ stack[Len(stack)] # << >>
    /\ ~CurrentCheck.fault /\ ~CurrentCheck.ok
    /\ adjacent_lr' = Touch(adjacent_lr, CurrentCheck.lr)
    /\ adjacent_9' = Touch(adjacent_9, CurrentCheck.box)
    /\ stack' = [stack EXCEPT ![Len(stack)] = Tail(@)]
    /\ UNCHANGED <<inputVars, genVars, mainVars, use_strict, students_sorted,
                   assignments, result, pc>>

BacktrackPlace ==
    /\ pc = "loop"
    /\ stack[Len(stack)] # << >>
    /\ ~CurrentCheck.fault /\ CurrentCheck.ok
    /\ adjacent_lr' = Touch(adjacent_lr, CurrentCheck.lr)
    /\ adjacent_9' = Touch(adjacent_9, CurrentCheck.box)
    /\ assignments' = SetItem(assignments, CurrentSid, Head(stack[Len(stack)]))
    /\ stack' = [stack EXCEPT ![Len(stack)] = Tail(@)]
    /\ pc' = "backtrack"
    /\ UNCHANGED <<inputVars, genVars, mainVars, use_strict, students_sorted, result>>

(* a slip of BacktrackUndo: the placement is not deleted *)
BacktrackUndoKeepsPlacement ==
    /\ pc = "loop"
    /\ stack[Len(stack)] = << >>
    /\ Len(stack) > 1
    /\ stack' = SubSeq(stack, 1, Len(stack) - 1)
    /\ UNCHANGED <<inputVars, genVars, mainVars, adjacent_lr, adjacent_9, use_strict,
                   students_sorted, assignments, result, pc>>

(* backtrack(idx), idx > 0, returns False: the caller deletes its placement *)
BacktrackUndo ==
    /\ pc = "loop"
    /\ stack[Len(stack)] = << >>
    /\ Len(stack) > 1
    /\ stack' = SubSeq(stack, 1, Len(stack) - 1)
    /\ assignments' = DelItem(assignments, students_sorted[Len(stack) - 1])
    /\ UNCHANGED <<inputVars, genVars, mainVars, adjacent_lr, adjacent_9, use_strict,
                   students_sorted, result, pc>>

(* a slip of BacktrackFail: the dict returned whatever backtrack(0) says *)
BacktrackFailReturnsDict ==
    /\ pc = "loop"
    /\ stack[Len(stack)] = << >>
    /\ Len(stack) = 1
    /\ stack' = << >>
    /\ result' = Some(assignments)
    /\ pc' = "solve_ret"
    /\ UNCHANGED <<inputVars, genVars, mainVars, adjacent_lr, adjacent_9, use_strict,
                   students_sorted, assignments>>

(* backtrack(0) returns False: solve_one_assignment returns None *)
BacktrackFail ==
    /\ pc = "loop"
    /\ stack[Len(stack)] = << >>
    /\ Len(stack) = 1
    /\ stack' = << >>
    /\ result' = None
    /\ pc' = "solve_ret"
    /\ UNCHANGED <<inputVars, genVars, mainVars, adjacent_lr, adjacent_9, use_strict,
                   students_sorted, assignments>>

-----------------------------------------------------------------------------
(* The tables of the page are not read by the solver: the constraint set is
   handed over as a dict *)
NoTables ==
    /\ rules_df = << >>
    /\ constraints_df = << >>
    /\ adjacency_rules = << >>

-----------------------------------------------------------------------------
(* One call of solve_one_assignment on inputs drawn from the bounded sets *)

InitSolve ==
    /\ seats \in Layouts
    /\ seat_by_id \in {SeatById(L) : L \in Layouts}
    /\ \E n \in 0..MaxStudents :
          /\ student_ids = Roster(n)
          /\ students = Roster(n)
          /\ constraints \in ConstraintSets(1..n)
    /\ num_layouts = 1
    /\ adjacent_lr = build_adjacency_maps(seats).lr
    /\ adjacent_9 = build_adjacency_maps(seats).box
    /\ gen_strict \in BOOLEAN
    /\ layouts = << >>
    /\ seen = {}
    /\ attempts = 0
    /\ use_strict = gen_strict
    /\ students_sorted = << >>
    /\ assignments = << >>
    /\ stack = << >>
    /\ result = None
    /\ returned = << >>
    /\ used_relaxed = FALSE
    /\ st_layouts = << >>
    /\ NoTables
    /\ students_info = None
    /\ pc = "solve_call"

NextSolve ==
    \/ SolveCall
    \/ BacktrackDone
    \/ BacktrackEnter
    \/ BacktrackFault
    \/ BacktrackReject
    \/ BacktrackPlace
    \/ BacktrackUndo
    \/ BacktrackFail

SpecSolve == InitSolve /\ [][NextSolve]_vars

-----------------------------------------------------------------------------
(* generate_multiple_layouts *)

AttemptFactor == 30

(* a slip of max_attempts: the factor forgotten *)
max_attempts_unscaled == num_layouts

max_attempts == num_layouts * AttemptFactor

(* a slip of LoopCondition: one attempt too many *)
LoopConditionOffByOne == Len(layouts) < num_layouts /\ attempts <= max_attempts

LoopCondition == Len(layouts) < num_layouts /\ attempts < max_attempts

(* a slip of GenIterate: the attempt is not counted *)
GenIterateUncounted ==
    /\ pc = "gen_loop"
    /\ LoopCondition
    /\ students' \in Shuffles(students)
    /\ pc' = "solve_call"
    /\ UNCHANGED <<inputVars, mainVars, adjacent_lr, adjacent_9, gen_strict, layouts, seen,
                   attempts, use_strict, students_sorted, assignments, stack, result>>

GenIterate ==
    /\ pc = "gen_loop"
    /\ LoopCondition
    /\ attempts' = attempts + 1
    /\ students' \in Shuffles(students)
    /\ pc' = "solve_call"
    /\ UNCHANGED <<inputVars, mainVars, adjacent_lr, adjacent_9, gen_strict, layouts, seen,
                   use_strict, students_sorted, assignments, stack, result>>

(* the frame of solve_one_assignment is gone once its result is consumed *)
SolveFrameGone ==
    /\ students_sorted' = << >>
    /\ assignments' = << >>
    /\ result' = None
    /\ UNCHANGED <<use_strict, stack>>

GenSkipNone ==
    /\ pc = "solve_ret"
    /\ result = None
    /\ pc' = "gen_loop"
    /\ SolveFrameGone
    /\ UNCHANGED <<inputVars, mainVars, genVars, adjacent_lr, adjacent_9>>

GenSkipDuplicate ==
    /\ pc = "solve_ret"
    /\ result # None
    /\ SortedItems(Val(result)) \in seen
    /\ pc' = "gen_loop"
    /\ SolveFrameGone
    /\ UNCHANGED <<inputVars, mainVars, genVars, adjacent_lr, adjacent_9>>

GenAppend ==
    /\ pc = "solve_ret"
    /\ result # None
    /\ SortedItems(Val(result)) \notin seen
    /\ seen' = seen \cup {SortedItems(Val(result))}
    /\ layouts' = Append(layouts, Val(result))
    /\ pc' = "gen_loop"
    /\ SolveFrameGone
    /\ UNCHANGED <<inputVars, mainVars, adjacent_lr, adjacent_9, gen_strict, attempts,
                   students>>

GenReturn ==
    /\ pc = "gen_loop"
    /\ ~LoopCondition
    /\ returned' = layouts
    /\ pc' = "main_ret"
    /\ UNCHANGED <<inputVars, genVars, adjacent_lr, adjacent_9, used_relaxed, st_layouts,
                   use_strict, students_sorted, assignments, stack, result>>

-----------------------------------------------------------------------------
(* main: one run with the generate button clicked *)

CallGenerate(strict) ==
    /\ gen_strict' = strict
    /\ students' = student_ids
    /\ layouts' = << >>
    /\ seen' = {}
    /\ attempts' = 0
    /\ pc' = "gen_loop"

MainGenerate ==
    /\ pc = "main"
    /\ students_info' = Some(Range(student_ids))
    /\ CallGenerate(TRUE)
    /\ used_relaxed' = FALSE
    /\ UNCHANGED <<seats, seat_by_id, student_ids, constraints, num_layouts, tableVars,
                   adjacent_lr, adjacent_9, returned, st_layouts,
                   use_strict, students_sorted, assignments, stack, result>>

(* a slip of MainFallback: the relaxed tier also tried after a partial result *)
MainFallbackOnPartial ==
    /\ pc = "main_ret"
    /\ ~used_relaxed
    /\ Len(returned) < num_layouts
    /\ CallGenerate(FALSE)
    /\ used_relaxed' = TRUE
    /\ UNCHANGED <<inputVars, adjacent_lr, adjacent_9, returned, st_layouts,
                   use_strict, students_sorted, assignments, stack, result>>

MainFallback ==
    /\ pc = "main_ret"
    /\ ~used_relaxed
    /\ returned = << >>
    /\ CallGenerate(FALSE)
    /\ used_relaxed' = TRUE
    /\ UNCHANGED <<inputVars, adjacent_lr, adjacent_9, returned, st_layouts,
                   use_strict, students_sorted, assignments, stack, result>>

MainStore ==
    /\ pc = "main_ret"
    /\ returned # << >>
    /\ st_layouts' = returned
    /\ pc' = "shown"
    /\ UNCHANGED <<inputVars, genVars, adjacent_lr, adjacent_9, returned, used_relaxed,
                   use_strict, students_sorted, assignments, stack, result>>

MainError ==
    /\ pc = "main_ret"
    /\ used_relaxed
    /\ returned = << >>
    /\ pc' = "shown"
    /\ UNCHANGED <<inputVars, genVars, adjacent_lr, adjacent_9, mainVars,
                   use_strict, students_sorted, assignments, stack, result>>

-----------------------------------------------------------------------------
(* One generation request on inputs drawn from the bounded sets *)

MaxLayouts == 2
GenMaxStudents == 2
GenMaxEntries == 1

GenLayouts == {Pair, Ell}

GenConstraintSets(S) ==
    {ConstraintsOf(S, E) : E \in SubsetsUpTo(EntryPool(S), GenMaxEntries)}

Init ==
    /\ seats \in GenLayouts
    /\ seat_by_id \in {SeatById(L) : L \in GenLayouts}
    /\ \E n \in 0..GenMaxStudents :
          /\ student_ids = Roster(n)
          /\ constraints \in GenConstraintSets(1..n)
    /\ students = student_ids
    /\ num_layouts \in 0..MaxLayouts
    /\ adjacent_lr = build_adjacency_maps(seats).lr
    /\ adjacent_9 = build_adjacency_maps(seats).box
    /\ gen_strict = TRUE
    /\ layouts = << >>
    /\ seen = {}
    /\ attempts = 0
    /\ use_strict = TRUE
    /\ students_sorted = << >>
    /\ assignments = << >>
    /\ stack = << >>
    /\ result = None
    /\ returned = << >>
    /\ used_relaxed = FALSE
    /\ st_layouts = << >>
    /\ NoTables
    /\ students_info = None
    /\ pc = "main"

Next ==
    \/ MainGenerate
    \/ GenIterate
    \/ SolveCall
    \/ BacktrackDone
    \/ BacktrackEnter
    \/ BacktrackFault
    \/ BacktrackReject
    \/ BacktrackPlace
    \/ BacktrackUndo
    \/ BacktrackFail
    \/ GenSkipNone
    \/ GenSkipDuplicate
    \/ GenAppend
    \/ GenReturn
    \/ MainFallback
    \/ MainStore
    \/ MainError

Spec == Init /\ [][Next]_vars

-----------------------------------------------------------------------------
(* Vocabulary of the properties: geometry is read from the seat list itself,
   not from the adjacency dicts *)

SeatRec(id) == SeatById(seats)[id]

LeftRight(x, y) ==
    /\ SeatRec(x).row = SeatRec(y).row
    /\ Abs(SeatRec(x).col - SeatRec(y).col) = 1

InBox(x, y) ==
    /\ x # y
    /\ Abs(SeatRec(x).row - SeatRec(y).row) <= 1
    /\ Abs(SeatRec(x).col - SeatRec(y).col) <= 1

SolveReturned == pc = "solve_ret"
Solved == pc = "solve_ret" /\ result # None

MustList(a) == IF a \in DOMAIN constraints THEN constraints[a].must_be_adjacent_to ELSE {}
MustNotList(a) == IF a \in DOMAIN constraints THEN constraints[a].must_not_adjacent_to ELSE {}
RowsOf(a) == IF a \in DOMAIN constraints THEN constraints[a].allowed_rows ELSE None
ColsOf(a) == IF a \in DOMAIN constraints THEN constraints[a].allowed_cols ELSE None

Position(d, k) == GetItem(d, k)

Injective(d) ==
    \A i \in DOMAIN d, j \in DOMAIN d : (i # j) => (d[i][1] # d[j][1] /\ d[i][2] # d[j][2])

SessionMatches == seat_by_id = SeatById(seats)

-----------------------------------------------------------------------------
(* C1: in every assignment returned by solve_one_assignment, two students one
   of whose records lists the other in must_be_adjacent_to sit in left-right
   neighbouring seats (same row, column distance 1), whichever of them was
   placed first and whether one record or both declare the relation. *)
C1_MustAdjacentHonoured ==
    Solved =>
        \A a \in Keys(Val(result)), b \in Keys(Val(result)) :
            (b \in MustList(a)) => LeftRight(ItemOf(Val(result), a), ItemOf(Val(result), b))

(* a one-sided relation whose listed student was placed before the lister *)
C1_Witness ==
    /\ Solved
    /\ \E a \in Keys(Val(result)), b \in Keys(Val(result)) :
          /\ b \in MustList(a)
          /\ a \notin MustList(b)
          /\ Position(Val(result), b) < Position(Val(result), a)

(* C2: in every returned assignment, two students one of whose records lists
   the other in must_not_adjacent_to do not sit in each other's 8-neighbourhood
   in strict mode, and are not left-right neighbours in relaxed mode; on the
   seats (1,1),(1,2),(1,3) with student 1 restricted to column 1 and student 2
   forbidden next to 1 in strict mode, student 2 sits in seat (1,3). *)
C2_MustNotAdjacentHonoured ==
    Solved =>
        /\ \A a \in Keys(Val(result)), b \in Keys(Val(result)) :
              (b \in MustNotList(a)) =>
                  IF use_strict
                  THEN ~InBox(ItemOf(Val(result), a), ItemOf(Val(result), b))
                  ELSE ~LeftRight(ItemOf(Val(result), a), ItemOf(Val(result), b))
        /\ (/\ seats = Row3
            /\ use_strict
            /\ {1, 2} \subseteq Keys(Val(result))
            /\ ColsOf(1) = Some({1})
            /\ 1 \in MustNotList(2))
           => ItemOf(Val(result), 2) = 3

(* Scenario B solved *)
C2_Witness ==
    /\ Solved
    /\ seats = Row3
    /\ use_strict
    /\ {1, 2} \subseteq Keys(Val(result))
    /\ ColsOf(1) = Some({1})
    /\ 1 \in MustNotList(2)
    /\ 2 \notin MustNotList(1)
    /\ ItemOf(Val(result), 1) = 1
    /\ ItemOf(Val(result), 2) = 3

(* C3: in every returned assignment a student with allowed_rows set sits in a
   row of that set and a student with allowed_cols set sits in a column of
   that set; a solve in which some student carries an empty allowed_rows or
   allowed_cols returns no assignment. *)
C3_PositionalHonoured ==
    /\ Solved =>
          \A a \in Keys(Val(result)) :
              /\ RowsOf(a) # None => SeatRec(ItemOf(Val(result), a)).row \in Val(RowsOf(a))
              /\ ColsOf(a) # None => SeatRec(ItemOf(Val(result), a)).col \in Val(ColsOf(a))
    /\ (/\ SolveReturned
        /\ \E a \in Range(students) : RowsOf(a) = Some({}) \/ ColsOf(a) = Some({}))
       => result = None

(* a returned assignment with a row-restricted and a column-restricted student,
   found although the session's seat lookup is that of another layout *)
C3_Witness ==
    /\ Solved
    /\ ~SessionMatches
    /\ \E a \in Keys(Val(result)) : RowsOf(a) # None
    /\ \E a \in Keys(Val(result)) : ColsOf(a) # None

(* C4: at every point of the search and in every result, no two students hold
   the same seat: the assignment under construction, the solver's result and
   every layout of the lists built, returned and stored are injective. *)
C4_Injective ==
    /\ Injective(assignments)
    /\ result # None => Injective(Val(result))
    /\ \A i \in DOMAIN layouts : Injective(layouts[i])
    /\ \A i \in DOMAIN returned : Injective(returned[i])
    /\ \A i \in DOMAIN st_layouts : Injective(st_layouts[i])

(* two layouts of two students each were returned, with a free seat left *)
C4_Witness ==
    /\ pc = "main_ret"
    /\ Len(returned) = 2
    /\ Len(returned[1]) = 2
    /\ Len(seats) > 2

(* C5: an assignment returned by solve_one_assignment places exactly the
   students passed in, each on a seat of the seat list passed in; with more
   students than seats the solver returns None. *)
C5_FullAssignment ==
    /\ Solved =>
          /\ Keys(Val(result)) = Range(students)
          /\ Len(Val(result)) = Len(students)
          /\ Values(Val(result)) \subseteq Ids(seats)
    /\ (SolveReturned /\ Len(students) > Len(seats)) => result = None

(* three students, two seats: None after the search placed two of them *)
C5_Witness ==
    /\ SolveReturned
    /\ result = None
    /\ Len(students) = 3
    /\ Len(seats) = 2
    /\ \A a \in Range(students) : RowsOf(a) = None /\ ColsOf(a) = None

(* the injective full assignments of the students to the seats, and the ones
   that meet every constraint by the geometry of the seat list *)
FullAssignments ==
    {f \in [Range(students) -> Ids(seats)] :
        \A a \in Range(students), b \in Range(students) : (a # b) => (f[a] # f[b])}

MeetsConstraints(f) ==
    /\ \A a \in Range(students) :
          /\ RowsOf(a) # None => SeatRec(f[a]).row \in Val(RowsOf(a))
          /\ ColsOf(a) # None => SeatRec(f[a]).col \in Val(ColsOf(a))
    /\ \A a \in Range(students), b \in Range(students) :
          /\ (b \in MustList(a)) => LeftRight(f[a], f[b])
          /\ (b \in MustNotList(a)) =>
                 IF use_strict THEN ~InBox(f[a], f[b]) ELSE ~LeftRight(f[a], f[b])

Satisfiable == \E f \in FullAssignments : MeetsConstraints(f)

(* C6: solve_one_assignment returns None exactly when no injective full
   assignment of the students to the seats meets every positional,
   must-adjacent and must-not-adjacent constraint in the given mode. *)
C6_Complete == SolveReturned => ((result = None) <=> ~Satisfiable)

(* a dict as a set of items, whatever the insertion order *)
Mapping(d) == {d[i] : i \in DOMAIN d}

PairwiseDistinct(L) ==
    \A i \in DOMAIN L, j \in DOMAIN L : (i # j) => Mapping(L[i]) # Mapping(L[j])

(* C7: the list built and returned by generate_multiple_layouts never holds
   more than num_layouts layouts, and its layouts are pairwise distinct under
   the canonical form (items sorted by student id). *)
C7_DistinctLayouts ==
    /\ Len(layouts) <= num_layouts
    /\ PairwiseDistinct(layouts)
    /\ Len(returned) <= num_layouts
    /\ PairwiseDistinct(returned)

(* two layouts returned after at least one duplicate was discarded *)
C7_Witness ==
    /\ pc = "main_ret"
    /\ Len(returned) = 2
    /\ attempts > 2
    /\ Len(returned[1]) = 2

InSolver == pc \in {"solve_call", "backtrack", "loop", "solve_ret"}

C8_State ==
    /\ attempts <= num_layouts * AttemptFactor
    /\ InSolver => (attempts >= 1 /\ Len(layouts) < num_layouts)
    /\ (pc = "main_ret" /\ Len(returned) < num_layouts)
           => attempts = num_layouts * AttemptFactor

C8_Step ==
    /\ (pc' = "solve_call") => (attempts' = attempts + 1)
    /\ (attempts' # attempts) =>
           \/ pc' = "solve_call"
           \/ pc \in {"main", "main_ret"} /\ pc' = "gen_loop" /\ attempts' = 0

(* C8: one call of generate_multiple_layouts invokes the solver at most
   num_layouts * 30 times, each invocation counts once, no invocation is made
   once num_layouts layouts are collected, and a list shorter than num_layouts
   is returned only after exactly num_layouts * 30 invocations. *)
C8_AttemptBudget == [](C8_State) /\ [][C8_Step]_vars

(* a partial result: one layout of two requested, the budget spent on duplicates *)
C8_Witness ==
    /\ pc = "main_ret"
    /\ Len(returned) = 1
    /\ num_layouts = 2
    /\ attempts = 2 * AttemptFactor

C9_State ==
    /\ pc \in {"backtrack", "loop", "solve_ret"} => use_strict = gen_strict
    /\ pc \in {"gen_loop", "solve_call", "backtrack", "loop", "solve_ret", "main_ret"}
           => (gen_strict <=> ~used_relaxed)

C9_Step ==
    /\ (pc = "main") => (pc' = "gen_loop" /\ gen_strict')
    /\ (pc = "main_ret") =>
           IF ~used_relaxed /\ returned = << >>
           THEN pc' = "gen_loop" /\ ~gen_strict' /\ used_relaxed'
           ELSE /\ pc' = "shown"
                /\ used_relaxed' = used_relaxed
                /\ (returned # << >>) => (st_layouts' = returned)
    /\ (pc \notin {"main", "main_ret"}) => (gen_strict' = gen_strict)

(* C9: main calls generate_multiple_layouts in strict mode first and in
   relaxed mode exactly when the strict call returned an empty list; a
   non-empty strict result, even a partial one, is stored as it is; every
   solver invocation of one call runs in the mode passed to that call. *)
C9_TwoTierFallback == [](C9_State) /\ [][C9_Step]_vars

(* the strict call found nothing and the relaxed call's layouts were stored *)
C9_Witness ==
    /\ pc = "shown"
    /\ used_relaxed
    /\ st_layouts # << >>

(* C10: no step of the checker or of the search raises an error: the solver
   ends with an assignment or None and the generator with a list. *)
C10_NoFault == pc # "fault"

-----------------------------------------------------------------------------
(* C11: a call of check_partial_constraints changes nothing: the adjacency
   mappings, key sets included, stay what build_adjacency_maps built, over a
   whole solve, also for seats that have no left-right neighbour. *)
C11_IndexUnchanged ==
    /\ adjacent_lr = build_adjacency_maps(seats).lr
    /\ adjacent_9 = build_adjacency_maps(seats).box

-----------------------------------------------------------------------------
(* build_adjacency_maps on seat lists drawn from a grid: any cells, also
   with gaps or shared by two seats, under any unique ids *)

(* nothing of a generation request has run yet *)
Idle ==
    /\ gen_strict = TRUE
    /\ layouts = << >>
    /\ seen = {}
    /\ attempts = 0
    /\ students = student_ids
    /\ use_strict = TRUE
    /\ students_sorted = << >>
    /\ assignments = << >>
    /\ stack = << >>
    /\ result = None
    /\ returned = << >>
    /\ used_relaxed = FALSE
    /\ students_info = None

(* main, line 401 *)
BuildAdjacency ==
    /\ pc = "start"
    /\ adjacent_lr' = build_adjacency_maps(seats).lr
    /\ adjacent_9' = build_adjacency_maps(seats).box
    /\ pc' = "indexed"
    /\ UNCHANGED <<inputVars, genVars, mainVars, use_strict, students_sorted,
                   assignments, stack, result>>

AdjMaxSeats == 3
GridSize == 3

Cells == (1..GridSize) \X (1..GridSize)

UniqueIds(n) ==
    {ids \in [1..n -> 1..(AdjMaxSeats + 1)] :
        \A i \in 1..n, j \in 1..n : (i # j) => (ids[i] # ids[j])}

SeatLists ==
    UNION {{[i \in 1..n |-> Seat(ids[i], cells[i][1], cells[i][2])] :
               ids \in UniqueIds(n), cells \in [1..n -> Cells]} : n \in 0..AdjMaxSeats}

InitAdj ==
    /\ seats \in SeatLists
    /\ seat_by_id = SeatById(seats)
    /\ student_ids = << >>
    /\ constraints = << >>
    /\ num_layouts = 1
    /\ adjacent_lr = << >>
    /\ adjacent_9 = << >>
    /\ st_layouts = << >>
    /\ NoTables
    /\ Idle
    /\ pc = "start"

NextAdj == BuildAdjacency

SpecAdj == InitAdj /\ [][NextAdj]_vars

(* C12: for every seat list with unique ids both relations built by
   build_adjacency_maps are symmetric and irreflexive; adjacent_lr holds
   exactly the pairs of seats in the same row at column distance 1, and
   adjacent_9 exactly the pairs of distinct seats with row and column
   distance at most 1. *)
C12_AdjacencyRelations ==
    (pc = "indexed") =>
        /\ DOMAIN adjacent_lr \subseteq Ids(seats)
        /\ DOMAIN adjacent_9 \subseteq Ids(seats)
        /\ \A X \in Ids(seats) :
              /\ X \notin Lookup(adjacent_lr, X)
              /\ X \notin Lookup(adjacent_9, X)
              /\ Lookup(adjacent_lr, X) \subseteq Ids(seats)
              /\ Lookup(adjacent_9, X) \subseteq Ids(seats)
              /\ \A Y \in Ids(seats) :
                    /\ (Y \in Lookup(adjacent_lr, X)) <=> (X \in Lookup(adjacent_lr, Y))
                    /\ (Y \in Lookup(adjacent_9, X)) <=> (X \in Lookup(adjacent_9, Y))
                    /\ (Y \in Lookup(adjacent_lr, X)) <=> LeftRight(X, Y)
                    /\ (Y \in Lookup(adjacent_9, X)) <=> InBox(X, Y)

(* a left-right pair, a diagonal pair and a pair too far apart in one list *)
C12_Witness ==
    /\ pc = "indexed"
    /\ \E X \in Ids(seats), Y \in Ids(seats), Z \in Ids(seats) :
          /\ Y \in Lookup(adjacent_lr, X)
          /\ Z \in Lookup(adjacent_9, Y) \ Lookup(adjacent_lr, Y)
          /\ Z \notin Lookup(adjacent_9, X)

-----------------------------------------------------------------------------
(* The relation table of main and build_constraints.

   A cell of the table holds whatever the data editor returned:
     IntCell(n)      the int n
     FloatCell(n)    the float n + 0.5, n >= 0
     StrCell(n)      the decimal text of n
     TextCell        a text that is no number
     NoneCell        None
     NanCell         the float NaN (an empty cell of a numeric column)
   The kinds of a record are "adjacent" and "non_adjacent" for the two
   options of the select box, and "other" for any other value. *)

IntCell(n) == [t |-> "int", v |-> n]
FloatCell(n) == [t |-> "float", v |-> n]
StrCell(n) == [t |-> "str", v |-> n]
TextCell == [t |-> "text", v |-> 0]
NoneCell == [t |-> "none", v |-> 0]
NanCell == [t |-> "nan", v |-> 0]

(* int(x): None stands for the TypeError of int(None) and the ValueError of
   int("abc") and int(nan); a float is truncated towards zero *)
PyInt(x) ==
    IF x.t \in {"int", "str", "float"} THEN Some(x.v) ELSE None

RuleRow(a, b, t) == [a |-> a, b |-> b, t |-> t]

(* one pass of the loop of lines 590-607: is the record appended *)
RuleKept(row, ids) ==
    /\ PyInt(row.a) # None
    /\ PyInt(row.b) # None
    /\ row.t \in {"adjacent", "non_adjacent"}
    /\ Val(PyInt(row.a)) # Val(PyInt(row.b))
    /\ Val(PyInt(row.a)) \in Range(ids)
    /\ Val(PyInt(row.b)) \in Range(ids)

CleanRules(df, ids) ==
    LET kept == SelectSeq(df, LAMBDA row : RuleKept(row, ids))
    IN [i \in 1..Len(kept) |->
           RuleRow(IntCell(Val(PyInt(kept[i].a))), IntCell(Val(PyInt(kept[i].b))),
                   kept[i].t)]

(* A cell of the positional table is the list of the parts between its
   commas, each stripped: a number, a blank or another text; "" and None
   have no part that is not blank *)
NumPart(n) == <<"num", n>>
BlankPart == <<"blank", 0>>
BadPart == <<"bad", 0>>

parse_rowcol_set(value) ==
    LET parts == SelectSeq(value, LAMBDA v : v # BlankPart)
    IN IF parts = << >> THEN None
       ELSE IF \E i \in DOMAIN parts : parts[i] = BadPart THEN None
       ELSE Some({parts[i][2] : i \in DOMAIN parts})

(* row_map.get(sid, ""): the last row of the table with that number *)
RowMapGet(df, sid, field) ==
    LET at == {i \in DOMAIN df : df[i].sid = sid}
    IN IF at = {} THEN <<BlankPart>> ELSE df[Max(at)][field]

(* the ids a relation record gives to student sid under one kind *)
RelatedTo(rules, base, sid, kind) ==
    {o \in base : \E i \in DOMAIN rules :
        /\ rules[i].t = kind
        /\ Val(PyInt(rules[i].a)) \in base
        /\ Val(PyInt(rules[i].b)) \in base
        /\ \/ Val(PyInt(rules[i].a)) = sid /\ Val(PyInt(rules[i].b)) = o
           \/ Val(PyInt(rules[i].b)) = sid /\ Val(PyInt(rules[i].a)) = o}

build_constraints(studs, cdf, rules) ==
    [sid \in Range(studs) |->
        StudentConstraint(parse_rowcol_set(RowMapGet(cdf, sid, "rows")),
                          parse_rowcol_set(RowMapGet(cdf, sid, "cols")),
                          RelatedTo(rules, Range(studs), sid, "adjacent"),
                          RelatedTo(rules, Range(studs), sid, "non_adjacent"))]

(* main, lines 588-609 *)
MainCleanRules ==
    /\ pc = "rules"
    /\ adjacency_rules' = CleanRules(rules_df, student_ids)
    /\ pc' = "button"
    /\ UNCHANGED <<seats, seat_by_id, student_ids, constraints, num_layouts, rules_df,
                   constraints_df, students_info, genVars, mainVars, adjacent_lr, adjacent_9,
                   use_strict, students_sorted, assignments, stack, result>>

(* main, lines 618-630: the button is clicked *)
MainBuildConstraints ==
    /\ pc = "button"
    /\ constraints' = build_constraints(student_ids, constraints_df, adjacency_rules)
    /\ students_info' = Some(Range(student_ids))
    /\ pc' = "main"
    /\ UNCHANGED <<seats, seat_by_id, student_ids, num_layouts, tableVars,
                   genVars, mainVars, adjacent_lr, adjacent_9,
                   use_strict, students_sorted, assignments, stack, result>>

MaxRules == 2
RulesMaxStudents == 3

RawCells == {IntCell(1), IntCell(2), IntCell(RulesMaxStudents + 1), FloatCell(1),
             StrCell(2), TextCell, NoneCell, NanCell}

RawRules == {RuleRow(a, b, t) : a \in RawCells, b \in RawCells,
                                t \in {"adjacent", "non_adjacent", "other"}}

RawTables == UNION {[1..n -> RawRules] : n \in 0..MaxRules}

PositionalTables ==
    {<< >>,
     <<[sid |-> 1, rows |-> <<NumPart(1), BlankPart, NumPart(2)>>, cols |-> <<BlankPart>>]>>,
     <<[sid |-> 2, rows |-> <<NumPart(1), BadPart>>, cols |-> <<NumPart(3)>>],
       [sid |-> 2, rows |-> <<BlankPart, BlankPart>>, cols |-> <<NumPart(1)>>]>>}

InitRules ==
    /\ seats = Row3
    /\ seat_by_id = SeatById(seats)
    /\ \E n \in 2..RulesMaxStudents : student_ids = Roster(n)
    /\ constraints = << >>
    /\ num_layouts = 1
    /\ adjacent_lr = build_adjacency_maps(seats).lr
    /\ adjacent_9 = build_adjacency_maps(seats).box
    /\ st_layouts = << >>
    /\ rules_df \in RawTables
    /\ constraints_df \in PositionalTables
    /\ adjacency_rules = << >>
    /\ Idle
    /\ pc = "rules"

NextRules ==
    \/ MainCleanRules
    \/ MainBuildConstraints

SpecRules == InitRules /\ [][NextRules]_vars

(* a record of the table as the user wrote it: both numbers are integers,
   they differ, both are on the roster and the kind is one of the two *)
IsInteger(x) == x.t \in {"int", "str"}

WellFormedRule(row) ==
    /\ IsInteger(row.a) /\ IsInteger(row.b)
    /\ row.a.v # row.b.v
    /\ row.a.v \in Range(student_ids) /\ row.b.v \in Range(student_ids)
    /\ row.t \in {"adjacent", "non_adjacent"}

Declared(A, B, kind) ==
    \E i \in DOMAIN rules_df :
        /\ WellFormedRule(rules_df[i])
        /\ rules_df[i].t = kind
        /\ {rules_df[i].a.v, rules_df[i].b.v} = {A, B}

(* C13: the constraint set that reaches the solver is well formed: both
   relational sets are symmetric, no student's set holds the student's own
   number, every number in a set is on the roster, and records with
   non-integer numbers, self-pairing, unknown kind or numbers off the roster
   contribute nothing, so the sets hold exactly what the well-formed records
   declare. *)
C13_WellFormedConstraints ==
    (pc = "main") =>
        \A A \in DOMAIN constraints :
            /\ A \notin constraints[A].must_be_adjacent_to
            /\ A \notin constraints[A].must_not_adjacent_to
            /\ constraints[A].must_be_adjacent_to \subseteq Range(student_ids)
            /\ constraints[A].must_not_adjacent_to \subseteq Range(student_ids)
            /\ \A B \in DOMAIN constraints :
                  /\ (B \in constraints[A].must_be_adjacent_to)
                        <=> (A \in constraints[B].must_be_adjacent_to)
                  /\ (B \in constraints[A].must_not_adjacent_to)
                        <=> (A \in constraints[B].must_not_adjacent_to)
                  /\ (B \in constraints[A].must_be_adjacent_to)
                        <=> Declared(A, B, "adjacent")
                  /\ (B \in constraints[A].must_not_adjacent_to)
                        <=> Declared(A, B, "non_adjacent")

-----------------------------------------------------------------------------
(* Several runs of main in one browser session.  Every run of the script
   rebuilds the seat list and the adjacency index (lines 400-401) and starts
   with fresh locals; st.session_state is kept from run to run.  A run reads
   the widgets from the top: the number of layouts (line 422), the roster
   (lines 435-444), the positional table (lines 462-468) and the relation
   table (lines 570-609), each as the user left it. *)

(* a room of one seat and a room of two *)
Single == <<Seat(1, 1, 1)>>
LiveLayouts == {Single, Pair}

SessionMaxStudents == 2
SessionMaxEntries == 1

(* a run has ended: after the preview, by an exception of the checker or of
   the preview, or by st.rerun() *)
RunEnded == pc \in {"shown", "fault", "name_error", "rerun"}

(* the rosters the students editor returns *)
SessionRosters == {Roster(n) : n \in 1..SessionMaxStudents}

(* init_session_state, lines 325-332: one row per seat number, cells "" *)
BlankRow(sid) == [sid |-> sid, rows |-> <<BlankPart>>, cols |-> <<BlankPart>>]
DefaultTable(k) == [i \in 1..k |-> BlankRow(i)]

(* the texts "1" and "2" typed into a cell of the rows column *)
SessionCells == {<<NumPart(1)>>, <<NumPart(2)>>}

FilledCells(df) ==
    Cardinality({c \in (DOMAIN df) \X {"rows", "cols"} : df[c[1]][c[2]] # <<BlankPart>>})

(* the tables the two editors return: a positional table of up to
   SessionMaxStudents rows, a relation table of up to one record, and
   between them at most SessionMaxEntries entries *)
SessionPositional ==
    UNION {{DefaultTable(k)} \cup
           {[DefaultTable(k) EXCEPT ![i].rows = c] : i \in 1..k, c \in SessionCells} :
           k \in 0..SessionMaxStudents}

SessionRelations ==
    {<< >>} \cup
    {<<RuleRow(IntCell(1), IntCell(2), t)>> : t \in {"adjacent", "non_adjacent"}}

SessionTables ==
    {e \in SessionPositional \X SessionRelations :
        FilledCells(e[1]) + Len(e[2]) <= SessionMaxEntries}

(* what the editors return on a run: the stored tables, untouched or edited *)
EditorTables == {<<constraints_df, adjacency_rules>>} \cup SessionTables

(* main, lines 396-451: the locals of the run are fresh, the index is
   rebuilt, the sidebar and the students editor are read.  A run that
   returns at lines 443-451 writes nothing that is modelled here. *)
RunStart(roster, n) ==
    /\ adjacent_lr' = build_adjacency_maps(seats).lr
    /\ adjacent_9' = build_adjacency_maps(seats).box
    /\ num_layouts' = n
    /\ student_ids' = roster
    /\ students' = roster
    /\ gen_strict' = TRUE
    /\ layouts' = << >>
    /\ seen' = {}
    /\ attempts' = 0
    /\ use_strict' = TRUE
    /\ students_sorted' = << >>
    /\ assignments' = << >>
    /\ stack' = << >>
    /\ result' = None
    /\ returned' = << >>
    /\ used_relaxed' = FALSE
    /\ students_info' = None
    /\ UNCHANGED <<seats, seat_by_id, st_layouts>>

(* main, lines 462-468 and 570-609, no quick-set button clicked: the edited
   positional table is stored, the relation table is cleaned and stored *)
SaveTables(roster, cdf, rdf) ==
    /\ constraints_df' = cdf
    /\ rules_df' = rdf
    /\ adjacency_rules' = CleanRules(rdf, roster)

(* main, lines 396-630, the generate button clicked: up to the call of
   line 632 *)
MainRerun ==
    /\ RunEnded
    /\ \E roster \in SessionRosters, n \in 1..MaxLayouts, e \in EditorTables :
          /\ RunStart(roster, n)
          /\ SaveTables(roster, e[1], e[2])
          /\ constraints' = build_constraints(roster, e[1], CleanRules(e[2], roster))
          /\ pc' = "main"

(* the first run of a session with the click, at line 632 *)
InitSession ==
    /\ seats \in LiveLayouts
    /\ seat_by_id \in {SeatById(L) : L \in LiveLayouts}
    /\ student_ids \in SessionRosters
    /\ \E e \in SessionTables :
          /\ constraints_df = e[1]
          /\ rules_df = e[2]
          /\ adjacency_rules = CleanRules(e[2], student_ids)
          /\ constraints = build_constraints(student_ids, e[1], adjacency_rules)
    /\ num_layouts \in 1..MaxLayouts
    /\ adjacent_lr = build_adjacency_maps(seats).lr
    /\ adjacent_9 = build_adjacency_maps(seats).box
    /\ st_layouts = << >>
    /\ Idle
    /\ pc = "main"

NextSession ==
    \/ Next
    \/ MainRerun

SpecSession == InitSession /\ [][NextSession]_vars

(* C14: after any sequence of generation requests the layouts held for
   presentation and export are exactly those the most recent request
   produced; when that request found no layout under both tiers, none
   remains. *)
C14_LatestRequestOnly == (pc = "shown") => (st_layouts = returned)

-----------------------------------------------------------------------------
(* Scenario E: an unconstrained room with as many students as seats, and no
   more layouts requested than there are permutations.  The scenario of the
   specification has 4 seats, 4 students and 5 of the 24 permutations
   requested; the instance explored here has 2 seats, 2 students and up to 2
   of the 2 permutations requested. *)

RECURSIVE Factorial(_)
Factorial(n) == IF n <= 0 THEN 1 ELSE n * Factorial(n - 1)

Unconstrained ==
    \A sid \in DOMAIN constraints :
        constraints[sid] = StudentConstraint(None, None, {}, {})

ScenarioE ==
    /\ Unconstrained
    /\ Len(student_ids) = Len(seats)
    /\ num_layouts \in 1..Factorial(Len(seats))

(* C15 as stated: in scenario E generate_multiple_layouts returns exactly
   the requested number of layouts, pairwise distinct, within the attempt
   budget, whatever the shuffles yield. *)
C15_ExactlyRequested ==
    (pc = "main_ret" /\ ScenarioE) =>
        /\ Len(returned) = num_layouts
        /\ PairwiseDistinct(returned)
        /\ attempts <= AttemptFactor * num_layouts

(* C15 amended: in scenario E generate_multiple_layouts returns at least one
   and at most the requested number of layouts, pairwise distinct, each
   seating every student on a seat of his own, within the attempt budget;
   fewer than requested only when the whole budget was used. *)
C15_DistinctWithinBudget ==
    (pc = "main_ret" /\ ScenarioE) =>
        /\ Len(returned) \in 1..num_layouts
        /\ PairwiseDistinct(returned)
        /\ \A i \in DOMAIN returned :
              /\ Keys(returned[i]) = Range(student_ids)
              /\ Injective(returned[i])
        /\ attempts <= AttemptFactor * num_layouts
        /\ (Len(returned) < num_layouts) => (attempts = AttemptFactor * num_layouts)

(* every attempt after the first repeated the first layout *)
C15_Witness ==
    /\ pc = "main_ret"
    /\ ScenarioE
    /\ num_layouts = 2
    /\ Len(returned) = 1
    /\ attempts = AttemptFactor * num_layouts

-----------------------------------------------------------------------------
(* The frame of backtrack(idx) is entry idx + 1 of the stack.  Between its
   entry and its return the call sees the idx placements it was entered
   with: while it tries its own candidates (pc = "loop" with its frame on
   top) the assignment holds nothing else. *)

FirstStudents(k) == {students_sorted[i] : i \in 1..k}

C16_State ==
    /\ (pc = "backtrack") =>
           /\ Len(assignments) = Len(stack)
           /\ Keys(assignments) = FirstStudents(Len(stack))
    /\ (pc = "loop") =>
           /\ Len(assignments) = Len(stack) - 1
           /\ Keys(assignments) = FirstStudents(Len(stack) - 1)
    /\ (pc = "solve_ret" /\ result = None) => (assignments = << >>)

(* no step touches a placement that a call still active after the step was
   entered with *)
C16_Step ==
    (Len(stack) >= 1 /\ Len(stack') >= 1) =>
        LET k == Min({Len(stack), Len(stack')})
        IN SubSeq(assignments', 1, k - 1) = SubSeq(assignments, 1, k - 1)

(* C16: undo is exact.  At every entry to backtrack(idx) the assignment's
   domain is exactly the first idx students of the sorted order; while the
   call runs, the placements it was entered with stay as they were and are
   all the assignment holds whenever the call tries a candidate or returns
   False; so the assignment at a False return is the one of the entry, a
   rejected or undone candidate leaves nothing behind, and after a failed
   search the assignment is empty. *)
C16_ExactUndo == [](C16_State) /\ [][C16_Step]_vars

(* backtrack(1) is about to return False in an unsatisfiable room: its
   candidates are used up and the placement made by backtrack(0), the last
   one it can make, is still in the assignment *)
C16_Witness ==
    /\ pc = "loop"
    /\ Len(students_sorted) = 3
    /\ Len(stack) = 2
    /\ stack[2] = << >>
    /\ stack[1] = << >>
    /\ Len(assignments) = 1
    /\ Satisfiable = FALSE

-----------------------------------------------------------------------------
SessionLookups == {SeatById(L) : L \in Layouts}

CheckUnder(sbi) ==
    check_partial_constraints(assignments, CurrentSid, Head(stack[Len(stack)]),
                              constraints, adjacent_lr, adjacent_9, use_strict, sbi)

(* C17: the verdict of check_partial_constraints is a function of its
   arguments only: for the partial assignment, student, seat, constraints,
   adjacency maps and mode of any call the solver makes, the call returns the
   same boolean whatever seat lookup the session holds, and the row and
   column tested are those of the seat in the seat list given to the solver. *)
C17_VerdictFromArguments ==
    (pc = "loop" /\ stack[Len(stack)] # << >>) =>
        \A sbi \in SessionLookups :
            /\ ~CheckUnder(sbi).fault
            /\ CheckUnder(sbi).ok = CheckUnder(SeatById(seats)).ok

-----------------------------------------------------------------------------
(* the constraint weight as the specification defines it: a positional
   restriction counts when it is set, that is, not None *)
Weight(sid) ==
    IF sid \notin DOMAIN constraints THEN 0
    ELSE (IF constraints[sid].allowed_rows # None THEN 2 ELSE 0)
       + (IF constraints[sid].allowed_cols # None THEN 2 ELSE 0)
       + 3 * Cardinality(constraints[sid].must_be_adjacent_to)
       + 3 * Cardinality(constraints[sid].must_not_adjacent_to)

InputPos(sid) == CHOOSE i \in DOMAIN students : students[i] = sid

(* C18: within one solve the students are taken for placement in
   non-increasing order of constraint weight (2 for allowed_rows not None,
   2 for allowed_cols not None, 3 for each entry of the two relational sets,
   0 without a record), and students of equal weight in the order of the
   reshuffled input list. *)
C18_PlacementOrder ==
    (pc \in {"backtrack", "loop"}) =>
        /\ Len(students_sorted) = Len(students)
        /\ Range(students_sorted) = Range(students)
        /\ \A i \in DOMAIN students_sorted, j \in DOMAIN students_sorted :
              (i < j) =>
                  /\ Weight(students_sorted[i]) >= Weight(students_sorted[j])
                  /\ (Weight(students_sorted[i]) = Weight(students_sorted[j]))
                         => (InputPos(students_sorted[i]) < InputPos(students_sorted[j]))

-----------------------------------------------------------------------------
(* A generation request under the scheduling of the interpreter: the single
   thread of control takes its next step as long as it has one *)


InitLive ==
    /\ seats \in LiveLayouts
    /\ seat_by_id \in {SeatById(L) : L \in LiveLayouts}
    /\ \E n \in 0..GenMaxStudents :
          /\ student_ids = Roster(n)
          /\ constraints \in GenConstraintSets(1..n)
    /\ num_layouts \in 0..MaxLayouts
    /\ adjacent_lr = build_adjacency_maps(seats).lr
    /\ adjacent_9 = build_adjacency_maps(seats).box
    /\ st_layouts = << >>
    /\ NoTables
    /\ Idle
    /\ pc = "main"

SpecLive == InitLive /\ [][Next]_vars /\ WF_vars(Next)

(* the request is over: main holds the outcome, or the KeyError of the
   checker's seat lookup has left main, which can only happen where the
   session holds the lookup of another layout *)
RequestEnded ==
    \/ pc = "shown"
    \/ pc = "fault" /\ ~SessionMatches

(* C19: every generation request runs to completion under every outcome of
   the shuffles.  The calls are sequential, so the request ends only after
   every invocation of solve_one_assignment and every call of
   generate_multiple_layouts it made has ended; it ends by returning to
   main, except where the checker's seat lookup raises. *)
C19_RunsToCompletion == <>RequestEnded

(* a request that used its whole budget under both tiers and found nothing *)
C19_Witness ==
    /\ pc = "shown"
    /\ used_relaxed
    /\ returned = << >>
    /\ num_layouts = MaxLayouts
    /\ attempts = AttemptFactor * num_layouts

-----------------------------------------------------------------------------
(* validity of a full assignment in a given mode, read from the seat list *)
ValidIn(f, strict) ==
    /\ \A a \in Range(students) :
          /\ RowsOf(a) # None => SeatRec(f[a]).row \in Val(RowsOf(a))
          /\ ColsOf(a) # None => SeatRec(f[a]).col \in Val(ColsOf(a))
    /\ \A a \in Range(students), b \in Range(students) :
          /\ (b \in MustList(a)) => LeftRight(f[a], f[b])
          /\ (b \in MustNotList(a)) =>
                 IF strict THEN ~InBox(f[a], f[b]) ELSE ~LeftRight(f[a], f[b])

SatisfiableIn(strict) == \E f \in FullAssignments : ValidIn(f, strict)

CheckIn(strict) ==
    check_partial_constraints(assignments, CurrentSid, Head(stack[Len(stack)]),
                              constraints, adjacent_lr, adjacent_9, strict, seat_by_id)

ResultMap == [a \in Keys(Val(result)) |-> ItemOf(Val(result), a)]

(* C20: relaxed mode is never stricter than strict mode: adjacent_lr[X] is a
   subset of adjacent_9[X] for every seat X; a partial assignment, student
   and seat that check_partial_constraints accepts in strict mode it accepts
   in relaxed mode; every full assignment returned by a strict solve is
   valid in relaxed mode; an input satisfiable in strict mode is satisfiable
   in relaxed mode. *)
C20_RelaxedNotStricter ==
    /\ \A X \in Ids(seats) : Lookup(adjacent_lr, X) \subseteq Lookup(adjacent_9, X)
    /\ (pc = "loop" /\ stack[Len(stack)] # << >>) =>
           /\ CheckIn(TRUE).fault = CheckIn(FALSE).fault
           /\ CheckIn(TRUE).ok => CheckIn(FALSE).ok
    /\ (Solved /\ use_strict) =>
           /\ Keys(Val(result)) = Range(students)
           /\ ValidIn(ResultMap, FALSE)
    /\ (pc = "solve_call") => (SatisfiableIn(TRUE) => SatisfiableIn(FALSE))

(* a candidate seat in the 8-neighbourhood but not left or right of the
   seat of a student who must not be adjacent: strict mode refuses it,
   relaxed mode accepts it *)
C20_Witness ==
    /\ pc = "loop"
    /\ stack[Len(stack)] # << >>
    /\ ~CheckIn(TRUE).fault
    /\ ~CheckIn(TRUE).ok
    /\ CheckIn(FALSE).ok
    /\ assignments # << >>

-----------------------------------------------------------------------------
(* Runs of the script on which the generate button is not clicked: an edit
   of a widget, a click on a quick-set button or on the download button
   reruns main from the top.  The block of lines 618-668 is skipped, so the
   names it binds are not bound in this run; the preview of lines 670-712
   runs on every run that reaches it. *)

(* lines 396-617: the tables are stored as on every run, no constraint is
   built, and the run goes on to the preview of line 670 *)
MainRerunNoClick ==
    /\ RunEnded
    /\ \E roster \in SessionRosters, n \in 1..MaxLayouts, e \in EditorTables :
          /\ RunStart(roster, n)
          /\ SaveTables(roster, e[1], e[2])
          /\ constraints' = << >>
          /\ pc' = "preview"

(* lines 404-405 *)
max_row == Max({seats[i].row : i \in DOMAIN seats})
max_col == Max({seats[i].col : i \in DOMAIN seats})

(* lines 501-510 and 540-549: the text written, as the list of its parts;
   mode is "none", "first" or "last" for the three options of the select
   box *)
QuickValue(mode, n, max) ==
    LET start == IF mode = "first" THEN 1 ELSE Max({max - n + 1, 1})
        stop == IF mode = "first" THEN Min({n, max}) ELSE max
    IN IF mode = "none" THEN <<BlankPart>>
       ELSE [i \in 1..(stop - start + 1) |-> NumPart(start + i - 1)]

(* lines 512-514 and 551-553: the cell of every row of a selected student *)
QuickWrite(df, selected, field, new_val) ==
    [i \in DOMAIN df |->
        IF df[i].sid \in selected THEN [df[i] EXCEPT ![field] = new_val] ELSE df[i]]

(* a quick-set button is clicked with students selected: the cells are
   written, the table is stored and st.rerun() ends the run before the
   relation table and the preview are reached.  The click is the widget
   event of its run: the other widgets return what they held.  The last
   conjunct keeps the stored tables within SessionMaxEntries entries. *)
QuickSetRun(selected, field, new_val) ==
    /\ RunStart(student_ids, num_layouts)
    /\ constraints_df' = QuickWrite(constraints_df, selected, field, new_val)
    /\ constraints' = << >>
    /\ pc' = "rerun"
    /\ UNCHANGED <<rules_df, adjacency_rules>>
    /\ FilledCells(constraints_df') + Len(adjacency_rules) <= SessionMaxEntries

(* lines 497-518 *)
MainQuickSetRows ==
    /\ RunEnded
    /\ \E selected \in (SUBSET Range(student_ids)) \ {{}},
          row_mode \in {"none", "first", "last"}, row_n \in 1..max_row :
          QuickSetRun(selected, "rows", QuickValue(row_mode, row_n, max_row))

(* lines 536-557 *)
MainQuickSetCols ==
    /\ RunEnded
    /\ \E selected \in (SUBSET Range(student_ids)) \ {{}},
          col_mode \in {"none", "first", "last"}, col_n \in 1..max_col :
          QuickSetRun(selected, "cols", QuickValue(col_mode, col_n, max_col))

(* lines 685-694: the seat drawn in a cell is the first of the list there *)
DrawnSeatIds ==
    {seats[i].id : i \in {j \in DOMAIN seats :
        \A k \in 1..(j - 1) : seats[k].row # seats[j].row \/ seats[k].col # seats[j].col}}

(* lines 695-704: a stored layout seats a student on a drawn seat *)
OccupiedSeatDrawn ==
    \E t \in DOMAIN st_layouts : Values(st_layouts[t]) \cap DrawnSeatIds # {}

(* line 704 reads students_info *)
PreviewReadsNames == st_layouts # << >> /\ OccupiedSeatDrawn

(* the read of an unbound local raises UnboundLocalError and ends the run *)
MainPreviewFault ==
    /\ pc = "preview"
    /\ PreviewReadsNames
    /\ students_info = None
    /\ pc' = "name_error"
    /\ UNCHANGED <<inputVars, genVars, mainVars, adjacent_lr, adjacent_9,
                   use_strict, students_sorted, assignments, stack, result>>

(* lines 670-720 without an error; line 709 binds the name for the export *)
MainPreview ==
    /\ pc = "preview"
    /\ ~(PreviewReadsNames /\ students_info = None)
    /\ students_info' = IF st_layouts # << >> THEN Some(Range(student_ids))
                        ELSE students_info
    /\ pc' = "shown"
    /\ UNCHANGED <<seats, seat_by_id, student_ids, constraints, num_layouts, tableVars,
                   genVars, mainVars, adjacent_lr, adjacent_9,
                   use_strict, students_sorted, assignments, stack, result>>

NextPage ==
    \/ NextSession
    \/ MainRerunNoClick
    \/ MainQuickSetRows
    \/ MainQuickSetCols
    \/ MainPreviewFault
    \/ MainPreview

SpecPage == InitSession /\ [][NextPage]_vars

(* C21: on every run of main with stored layouts, also one on which the
   button was not clicked, the lookup from student number to name is bound
   before the preview reads it for an occupied seat. *)
C21_NamesBoundBeforePreview ==
    (pc = "preview" /\ PreviewReadsNames) => (students_info # None)

====
